---- MODULE Spec2Model ----
\* Model of the DNS wire-format decoder in src/src/main.rs (mod dns):
\* Header::parse as a function of a byte slice, and Message::parse as a
\* step machine over a read cursor.  Bytes are integers 0..255; a Rust
\* index buf[k] is the TLA+ index b[k+1].
EXTENDS Integers, Sequences, FiniteSets, TLC

VARIABLES buf, cursor, pc, header, i, labels, name_len_buf, questions, result, reads

vars == <<buf, cursor, pc, header, i, labels, name_len_buf, questions, result, reads>>

----------------------------------------------------------------------------
\* Bounds of the model

\* longest slice handed to Header::parse in SpecHeader
MaxSliceLen == 13

\* number of wire fragments concatenated after the header in Spec
MaxChunks == 3

----------------------------------------------------------------------------
\* u8 arithmetic

RECURSIVE BitAndN(_, _, _)
BitAndN(a, b, n) ==
    IF n = 0 THEN 0
    ELSE (a % 2) * (b % 2) + 2 * BitAndN(a \div 2, b \div 2, n - 1)

\* a & b on u8
BitAnd(a, b) == BitAndN(a, b, 8)

\* a << k on u8: the bits shifted out of the byte are dropped
Shl(a, k) == (a * (2 ^ k)) % 256

\* u8::from_be: a byte swap of a one-byte integer, on either endianness
U8FromBe(x) == x

\* u16::from_be_bytes([hi, lo])
U16FromLeBytes(hi, lo) == lo * 256 + hi
U16FromBeBytes(hi, lo) == hi * 256 + lo

----------------------------------------------------------------------------
\* mod flags

QR == 128
OPCODE == 120
AA == 4
TC == 2
RD == 1
RCODE == 15

----------------------------------------------------------------------------
\* Result<T, E>

NoError == [kind |-> "none", code |-> 0]
Ok(v) == [ok |-> TRUE, val |-> v, err |-> NoError]
Err(kind, code) == [ok |-> FALSE, val |-> <<>>, err |-> [kind |-> kind, code |-> code]]

\* impl TryFrom<u8> for Opcode
OpcodeTryFrom(code) ==
    CASE code = 0 -> Ok("StandardQuery")
      [] code = 1 -> Ok("InverseQuery")
      [] code = 2 -> Ok("ServerStatusRequest")
      [] OTHER -> Err("InvalidOpcode", code)

\* impl TryFrom<u8> for ResponseCode
ResponseCodeTryFrom(code) ==
    CASE code = 0 -> Ok("NoError")
      [] code = 1 -> Ok("FormatError")
      [] code = 2 -> Ok("ServerFailure")
      [] code = 3 -> Ok("NameError")
      [] code = 4 -> Ok("NotImplemented")
      [] code = 5 -> Ok("Refused")
      [] OTHER -> Err("InvalidResponseCode", code)

\* impl TryFrom<u16> for QType
QTypeTryFromAny(kind) == Ok("A")
QTypeTryFrom(kind) ==
    IF kind = 1 THEN Ok("A") ELSE Err("InvalidQType", kind)

\* impl TryFrom<u16> for QClass
QClassTryFrom(class) ==
    IF class = 1 THEN Ok("Internet") ELSE Err("InvalidQClass", class)

----------------------------------------------------------------------------
\* Header::parse

\* the length test that guards every read of the slice
HeaderLenAtLeast(b) == Len(b) >= 12
HeaderLenOk(b) == Len(b) = 12

HeaderParse(b) ==
    IF ~HeaderLenOk(b) THEN Err("MalformedHeader", 0)
    ELSE
      LET opcode == OpcodeTryFrom(U8FromBe(Shl(BitAnd(b[3], OPCODE), 1)))
          response_code == ResponseCodeTryFrom(U8FromBe(Shl(BitAnd(b[4], RCODE), 4)))
      IN  IF ~opcode.ok THEN Err(opcode.err.kind, opcode.err.code)
          ELSE IF ~response_code.ok
               THEN Err(response_code.err.kind, response_code.err.code)
          ELSE Ok([ id |-> U16FromBeBytes(b[1], b[2]),
                    is_query |-> BitAnd(b[3], QR) > 0,
                    opcode |-> opcode.val,
                    is_authoritative_answer |-> BitAnd(b[3], AA) > 0,
                    truncated |-> BitAnd(b[3], TC) > 0,
                    recursion_desired |-> BitAnd(b[3], RD) > 0,
                    recursion_available |-> FALSE,
                    response_code |-> response_code.val,
                    questions |-> U16FromBeBytes(b[5], b[6]),
                    answers |-> U16FromBeBytes(b[7], b[8]) ])

\* the header variable before a header has been decoded
NoHeader == [questions |-> 0]

----------------------------------------------------------------------------
\* SpecHeader: Header::parse applied to slices of every length 0..MaxSliceLen

\* bytes 0-1 and 4-11 of the slices handed to Header::parse
HeaderRest ==
    { <<18, 52, 0, 1, 0, 0, 0, 0, 0, 0>>,
      <<171, 205, 1, 0, 0, 2, 0, 3, 0, 4>>,
      <<0, 0, 255, 255, 255, 254, 255, 253, 255, 252>> }

MkHeader(r, b2, b3) == <<r[1], r[2], b2, b3>> \o SubSeq(r, 3, 10)

HeaderBytes == { MkHeader(r, b2, b3) : r \in HeaderRest, b2 \in 0..255, b3 \in 0..255 }

\* slices that are too short or too long: cut or extended 12-byte headers
OddSlices ==
    LET base == { MkHeader(r, b2, b3) : r \in HeaderRest, b2 \in {0, 1, 8, 128}, b3 \in {0, 1, 64} }
    IN  { SubSeq(h, 1, n) : h \in base, n \in 0..11 }
        \cup { h \o [k \in 1..n |-> 0] : h \in base, n \in 1..(MaxSliceLen - 12) }

HeaderSlices == HeaderBytes \cup OddSlices

InitHeader ==
    /\ buf \in HeaderSlices
    /\ cursor = 0
    /\ pc = "call"
    /\ header = NoHeader
    /\ i = 0
    /\ labels = <<>>
    /\ name_len_buf = 0
    /\ questions = <<>>
    /\ result = Ok(<<>>)
    /\ reads = 0

\* one call of Header::parse on the slice buf
CallHeaderParse ==
    /\ pc = "call"
    /\ result' = HeaderParse(buf)
    /\ pc' = "returned"
    /\ UNCHANGED <<buf, cursor, header, i, labels, name_len_buf, questions, reads>>

NextHeader == CallHeaderParse

SpecHeader == InitHeader /\ [][NextHeader]_vars

----------------------------------------------------------------------------
\* String::from_utf8 (called on every label): the bytes are kept as they
\* are when they form well-formed UTF-8, and the call fails otherwise

IsCont(b) == b \in 128..191

RECURSIVE Utf8Valid(_)
Utf8Valid(s) ==
    IF s = <<>> THEN TRUE
    ELSE
      LET b == s[1]
          n == Len(s)
      IN  IF b < 128 THEN Utf8Valid(SubSeq(s, 2, n))
          ELSE IF b \in 194..223
               THEN n >= 2 /\ IsCont(s[2]) /\ Utf8Valid(SubSeq(s, 3, n))
          ELSE IF b \in 224..239
               THEN /\ n >= 3
                    /\ IsCont(s[2]) /\ IsCont(s[3])
                    /\ (b = 224 => s[2] >= 160)
                    /\ (b = 237 => s[2] <= 159)
                    /\ Utf8Valid(SubSeq(s, 4, n))
          ELSE IF b \in 240..244
               THEN /\ n >= 4
                    /\ IsCont(s[2]) /\ IsCont(s[3]) /\ IsCont(s[4])
                    /\ (b = 240 => s[2] >= 144)
                    /\ (b = 244 => s[2] <= 143)
                    /\ Utf8Valid(SubSeq(s, 5, n))
          ELSE FALSE

----------------------------------------------------------------------------
\* Cursor<&[u8]>::read_exact on the message buffer

\* whether n bytes remain after position pos
ReadFitsAlways(pos, n) == TRUE
ReadFits(pos, n) == pos + n <= Len(buf)

\* the destination buffer after the call: it starts zeroed ([0; n]) and
\* receives the bytes at pos..pos+n
ReadData(pos, n) == [k \in 1..n |-> IF pos + k <= Len(buf) THEN buf[pos + k] ELSE 0]

\* the cursor after a read that succeeded
NoAdvance(pos, n) == pos
Advance(pos, n) == pos + n

\* the cursor after a read that failed: left in place, or moved to the end
\* of the buffer, depending on the standard library the build links
EofPositions(pos) == {pos, Len(buf)}

\* the `for _ in 0..header.questions` test, after k iterations
QuestionsRemainingOffByOne(k, n) == k + 1 < n
QuestionsRemaining(k, n) == k < n

----------------------------------------------------------------------------
\* Message::parse

Fail(kind, code) ==
    /\ result' = Err(kind, code)
    /\ pc' = "done"

\* lines 169-174: read the 12 header bytes and decode them
ParseHeader ==
    /\ pc = "header"
    /\ reads' = reads + 1
    /\ IF ReadFits(cursor, 12)
       THEN LET h == HeaderParse(ReadData(cursor, 12))
            IN  /\ cursor' = Advance(cursor, 12)
                /\ IF h.ok
                   THEN /\ header' = h.val
                        /\ pc' = "for"
                        /\ UNCHANGED result
                   ELSE /\ Fail(h.err.kind, h.err.code)
                        /\ UNCHANGED header
       ELSE /\ cursor' \in EofPositions(cursor)
            /\ Fail("UnexpectedEof", 0)
            /\ UNCHANGED header
    /\ UNCHANGED <<buf, i, labels, name_len_buf, questions>>

\* lines 178-181: enter one iteration of the question loop and read the
\* first length byte of the name
ForQuestion ==
    /\ pc = "for"
    /\ QuestionsRemaining(i, header.questions)
    /\ i' = i + 1
    /\ labels' = <<>>
    /\ reads' = reads + 1
    /\ IF ReadFits(cursor, 1)
       THEN /\ name_len_buf' = ReadData(cursor, 1)[1]
            /\ cursor' = Advance(cursor, 1)
            /\ pc' = "while"
            /\ UNCHANGED result
       ELSE /\ cursor' \in EofPositions(cursor)
            /\ Fail("UnexpectedEof", 0)
            /\ UNCHANGED name_len_buf
    /\ UNCHANGED <<buf, header, questions>>

\* lines 182-187: one iteration of the label loop
ReadLabel ==
    /\ pc = "while"
    /\ name_len_buf # 0
    /\ IF ~ReadFits(cursor, name_len_buf)
       THEN /\ cursor' \in EofPositions(cursor)
            /\ reads' = reads + 1
            /\ Fail("UnexpectedEof", 0)
            /\ UNCHANGED <<labels, name_len_buf>>
       ELSE
         LET label_buf == ReadData(cursor, name_len_buf)
             c1 == Advance(cursor, name_len_buf)
         IN  IF ~Utf8Valid(label_buf)
             THEN /\ cursor' = c1
                  /\ reads' = reads + 1
                  /\ Fail("FromUtf8Error", 0)
                  /\ UNCHANGED <<labels, name_len_buf>>
             ELSE /\ labels' = Append(labels, label_buf)
                  /\ reads' = reads + 2
                  /\ IF ReadFits(c1, 1)
                     THEN /\ name_len_buf' = ReadData(c1, 1)[1]
                          /\ cursor' = Advance(c1, 1)
                          /\ pc' = "while"
                          /\ UNCHANGED result
                     ELSE /\ cursor' \in EofPositions(c1)
                          /\ Fail("UnexpectedEof", 0)
                          /\ UNCHANGED name_len_buf
    /\ UNCHANGED <<buf, header, i, questions>>

\* lines 189-199: the name is complete; read qtype and qclass, validate
\* them and push the question
ReadQuestionTail ==
    /\ pc = "while"
    /\ name_len_buf = 0
    /\ IF ~ReadFits(cursor, 2)
       THEN /\ cursor' \in EofPositions(cursor)
            /\ reads' = reads + 1
            /\ Fail("UnexpectedEof", 0)
            /\ UNCHANGED questions
       ELSE
         LET qtype_buf == ReadData(cursor, 2)
             c1 == Advance(cursor, 2)
         IN  IF ~ReadFits(c1, 2)
             THEN /\ cursor' \in EofPositions(c1)
                  /\ reads' = reads + 2
                  /\ Fail("UnexpectedEof", 0)
                  /\ UNCHANGED questions
             ELSE
               LET qclass_buf == ReadData(c1, 2)
                   qtype == QTypeTryFrom(U16FromBeBytes(qtype_buf[1], qtype_buf[2]))
                   qclass == QClassTryFrom(U16FromBeBytes(qclass_buf[1], qclass_buf[2]))
               IN  /\ cursor' = Advance(c1, 2)
                   /\ reads' = reads + 2
                   /\ IF ~qtype.ok
                      THEN Fail(qtype.err.kind, qtype.err.code) /\ UNCHANGED questions
                      ELSE IF ~qclass.ok
                      THEN Fail(qclass.err.kind, qclass.err.code) /\ UNCHANGED questions
                      ELSE /\ questions' = Append(questions,
                                  [name |-> labels, qtype |-> qtype.val, qclass |-> qclass.val])
                           /\ pc' = "for"
                           /\ UNCHANGED result
    /\ UNCHANGED <<buf, header, i, labels, name_len_buf>>

\* line 204: the question loop is over
Return ==
    /\ pc = "for"
    /\ ~QuestionsRemaining(i, header.questions)
    /\ result' = Ok([header |-> header, questions |-> questions])
    /\ pc' = "done"
    /\ UNCHANGED <<buf, cursor, header, i, labels, name_len_buf, questions, reads>>

----------------------------------------------------------------------------
\* Spec: Message::parse on the datagrams main hands it (&buf[..size])

\* wire fragments: labels (one of them not UTF-8, one two-byte character,
\* one whose length byte overruns it) and name terminators followed by
\* qtype and qclass
Chunks ==
    { <<1, 97>>, <<1, 98>>, <<2, 195, 169>>, <<1, 255>>, <<3, 97>>,
      <<0, 0, 1, 0, 1>>, <<0, 0, 2, 0, 1>>, <<0, 0, 1, 0, 2>>, <<0, 1, 1, 0, 1>> }

RECURSIVE Concats(_)
Concats(k) ==
    IF k = 0 THEN {<<>>}
    ELSE LET P == Concats(k - 1) IN P \cup { p \o c : p \in P, c \in Chunks }

Prefixes(S) == UNION { { SubSeq(s, 1, n) : n \in 0..Len(s) } : s \in S }

Bodies == Prefixes(Concats(MaxChunks))

MkMsgHeader(f, qd) == <<18, 52, f[1], f[2], qd[1], qd[2], 0, 0, 0, 0, 0, 0>>

QdCounts == { <<0, 0>>, <<0, 1>>, <<0, 2>>, <<1, 0>>, <<255, 255>> }

MsgHeaders ==
    { MkMsgHeader(<<1, 0>>, qd) : qd \in QdCounts }
    \cup { MkMsgHeader(f, <<0, 1>>) : f \in { <<8, 0>>, <<0, 3>> } }

MessageBuffers ==
    { h \o b : h \in MsgHeaders, b \in Bodies }
    \cup { SubSeq(h, 1, n) : h \in MsgHeaders, n \in 0..11 }

Init ==
    /\ buf \in MessageBuffers
    /\ cursor = 0
    /\ pc = "header"
    /\ header = NoHeader
    /\ i = 0
    /\ labels = <<>>
    /\ name_len_buf = 0
    /\ questions = <<>>
    /\ result = Ok(<<>>)
    /\ reads = 0

Next ==
    \/ ParseHeader
    \/ ForQuestion
    \/ ReadLabel
    \/ ReadQuestionTail
    \/ Return

Spec == Init /\ [][Next]_vars

\* the decoder is one synchronous call: it keeps running until it returns
FairSpec == Spec /\ WF_vars(Next)

----------------------------------------------------------------------------
\* Properties.  The wire fields are read off buf directly, by division
\* and remainder, and not through the operators of the decoder above.

\* bit k of byte b
Bit(b, k) == (b \div (2 ^ k)) % 2

\* the call of Header::parse has returned from a 12-byte slice
Returned12 == pc = "returned" /\ Len(buf) = 12

\* opcode nibble (bits 6-3 of byte 2) and response-code nibble of byte 3
OpcodeField == (buf[3] \div 8) % 16
RcodeField == buf[4] % 16

OpcodeName(v) ==
    CASE v = 0 -> "StandardQuery" [] v = 1 -> "InverseQuery" [] OTHER -> "ServerStatusRequest"

RcodeName(v) ==
    CASE v = 0 -> "NoError" [] v = 1 -> "FormatError" [] v = 2 -> "ServerFailure"
      [] v = 3 -> "NameError" [] v = 4 -> "NotImplemented" [] OTHER -> "Refused"

\* C1: for every 12-byte header, an opcode nibble of 3..15 makes
\* Header::parse fail with an invalid-opcode error, and a nibble of 0, 1
\* or 2 is never an invalid-opcode error and decodes to StandardQuery,
\* InverseQuery, ServerStatusRequest.
C1_OpcodeDecoding ==
    Returned12 =>
        /\ OpcodeField >= 3 => (~result.ok /\ result.err.kind = "InvalidOpcode")
        /\ OpcodeField <= 2 =>
              /\ result.err.kind # "InvalidOpcode"
              /\ result.ok => result.val.opcode = OpcodeName(OpcodeField)

\* C2: for every 12-byte header that decodes, is_query is true exactly
\* when the QR bit (bit 7 of byte 2) is clear.
C2_IsQueryPolarity ==
    (Returned12 /\ result.ok) => (result.val.is_query <=> Bit(buf[3], 7) = 0)

\* C3: a 12-byte header with any reserved bit of byte 3 (mask 0b01110000)
\* set never decodes successfully.
C3_ReservedBitsRejected ==
    (Returned12 /\ (buf[4] \div 16) % 8 # 0) => ~result.ok

\* C4: for every 12-byte header whose opcode is accepted, a response-code
\* nibble of 0..5 decodes to the named variant and a nibble of 6..15 makes
\* Header::parse fail with an invalid-response-code error.
C4_ResponseCodeDecoding ==
    (Returned12 /\ result.err.kind # "InvalidOpcode") =>
        /\ RcodeField <= 5 => (result.ok /\ result.val.response_code = RcodeName(RcodeField))
        /\ RcodeField >= 6 => (~result.ok /\ result.err.kind = "InvalidResponseCode")

\* the fields of C8 that the Header struct has
C8_DecodedFields(h) ==
    /\ h.id = buf[1] * 256 + buf[2]
    /\ h.is_authoritative_answer <=> Bit(buf[3], 2) = 1
    /\ h.truncated <=> Bit(buf[3], 1) = 1
    /\ h.recursion_desired <=> Bit(buf[3], 0) = 1
    /\ h.questions = buf[5] * 256 + buf[6]
    /\ h.answers = buf[7] * 256 + buf[8]

C9_LengthCheck ==
    pc = "returned" =>
        (Len(buf) # 12 <=> (~result.ok /\ result.err.kind = "MalformedHeader"))

C9_Witness ==
    /\ pc = "returned" /\ Len(buf) = 13
    /\ ~result.ok /\ result.err.kind = "MalformedHeader"

----------------------------------------------------------------------------
\* Properties of Message::parse

\* wire encoding of decoded questions
RECURSIVE EncodeName(_)
EncodeName(ls) ==
    IF ls = <<>> THEN <<0>>
    ELSE <<Len(ls[1])>> \o ls[1] \o EncodeName(Tail(ls))

EncodeQuestion(q) == EncodeName(q.name) \o <<0, 1, 0, 1>>

RECURSIVE EncodeQuestions(_)
EncodeQuestions(qs) ==
    IF qs = <<>> THEN <<>>
    ELSE EncodeQuestion(qs[1]) \o EncodeQuestions(Tail(qs))

\* QDCOUNT as sent: big-endian bytes 4-5
QdCount == buf[5] * 256 + buf[6]

\* C5: when Message::parse succeeds, the decoded questions are QDCOUNT
\* many and are, in order, the questions encoded back to back after the
\* header; a message with QDCOUNT = 0 whose header is accepted yields the
\* empty sequence without error, whatever follows the header.
C5_QuestionCountAndOrder ==
    pc = "done" =>
        /\ result.ok =>
              /\ Len(result.val.questions) = QdCount
              /\ cursor <= Len(buf)
              /\ EncodeQuestions(result.val.questions) = SubSeq(buf, 13, cursor)
        /\ (Len(buf) >= 12 /\ QdCount = 0) =>
              \/ result.ok /\ result.val.questions = <<>>
              \/ ~result.ok /\ result.err.kind \in {"InvalidOpcode", "InvalidResponseCode"}

C5_Witness ==
    /\ pc = "done" /\ result.ok
    /\ Len(result.val.questions) = 2
    /\ result.val.questions[1].name = <<>>
    /\ result.val.questions[2].name = << <<97>> >>

\* the next step reads a field that the buffer ends before
ShortRead ==
    \/ pc = "header" /\ Len(buf) < 12
    \/ pc = "for" /\ i < header.questions /\ Len(buf) < cursor + 1
    \/ pc = "while" /\ name_len_buf # 0 /\ Len(buf) < cursor + name_len_buf
    \/ /\ pc = "while" /\ name_len_buf # 0
       /\ Len(buf) = cursor + name_len_buf
       /\ Utf8Valid(SubSeq(buf, cursor + 1, cursor + name_len_buf))
    \/ pc = "while" /\ name_len_buf = 0 /\ Len(buf) < cursor + 4

\* C6: a step of Message::parse that reads a field the buffer ends before
\* (the header, a length byte, a label, qtype/qclass) ends the call with
\* the unexpected-end-of-input error, and no Message is returned.
C6_TruncationIsEof ==
    [][ShortRead => (pc' = "done" /\ ~result'.ok /\ result'.err.kind = "UnexpectedEof")]_vars

C6_Witness ==
    /\ pc = "done" /\ ~result.ok /\ result.err.kind = "UnexpectedEof"
    /\ labels # <<>> /\ name_len_buf = 2
    /\ cursor = Len(buf) - 1

\* C7: a question is pushed exactly when the name is followed by qtype
\* bytes 0,1 and qclass bytes 0,1 (any other four bytes end the call with
\* an invalid-qtype or invalid-qclass error); the pushed question has
\* qtype A, qclass Internet and a name of non-empty labels whose wire
\* encoding is the bytes just consumed.
C7_QuestionDecoding ==
    [][ /\ Len(questions') > Len(questions) =>
             LET q == questions'[Len(questions')]
                 w == EncodeQuestion(q)
             IN  /\ questions' = Append(questions, q)
                 /\ q.qtype = "A" /\ q.qclass = "Internet"
                 /\ \A k \in 1..Len(q.name) : Len(q.name[k]) >= 1
                 /\ Len(w) <= cursor' - 12
                 /\ w = SubSeq(buf, cursor' - Len(w) + 1, cursor')
        /\ (pc = "while" /\ name_len_buf = 0 /\ cursor + 4 <= Len(buf)) =>
             IF SubSeq(buf, cursor + 1, cursor + 4) = <<0, 1, 0, 1>>
             THEN Len(questions') = Len(questions) + 1 /\ pc' = "for"
             ELSE /\ questions' = questions /\ pc' = "done" /\ ~result'.ok
                  /\ result'.err.kind \in {"InvalidQType", "InvalidQClass"}
      ]_vars

C7_Witness ==
    /\ pc = "for"
    /\ Len(questions) = 1
    /\ questions[1] = [name |-> << <<97>>, <<98>> >>, qtype |-> "A", qclass |-> "Internet"]

\* C10: Message::parse terminates; the cursor only moves forward and
\* stays within the buffer, every iteration of the question loop and of
\* the label loop that does not end the call consumes at least one byte,
\* and at most Len(buf) + 1 reads are made (one of them failing).
C10_Termination ==
    /\ [](cursor <= Len(buf) /\ reads <= Len(buf) + 1)
    /\ [][ /\ cursor' >= cursor
           /\ (pc \in {"for", "while"} /\ pc' # "done") => cursor' > cursor ]_vars
    /\ <>(pc = "done")

C10_Witness ==
    /\ pc = "done" /\ ~result.ok /\ result.err.kind = "UnexpectedEof"
    /\ header.questions = 65535
    /\ Len(questions) = 2
    /\ reads = 8

====
